---- MODULE Spec2Model ----
(***************************************************************************)
(* Model of the computation graph of src/src/main.rs: reference-counted    *)
(* nodes (Rc<RefCell<Node>>) holding an operation, a list of dependent     *)
(* nodes and an optional cached f32, with the construction API, the        *)
(* memoised recursive evaluation (traverse / compute) and the recursive    *)
(* cache invalidation (clear_cash / set).                                  *)
(*                                                                         *)
(* The heap is the sequence `nodes`; a Graph handle is an index into it.   *)
(* An Option<f32> is a sequence of length 0 (None) or 1 (Some(v)).         *)
(* f32 values are abstracted to the finite domain 0..NumVals-1 and the     *)
(* four float operations to fixed, distinct, non-identity functions on it: *)
(* the properties checked are about caching, borrowing and ownership, not  *)
(* about IEEE-754 rounding.  The String name of an Input is never read by  *)
(* the code and is left out.                                               *)
(***************************************************************************)
EXTENDS Integers, Sequences, FiniteSets, TLC

\* Bounds of the model: the number of nodes ever constructed (MaxNodesLarge
\* for the specification of the larger graphs) and the size of the value domain.
MaxNodes      == 3
MaxNodesLarge == 4
NumVals       == 2

VARIABLES
    nodes,      \* the heap: nodes[h] is the Node behind handle h
    held,       \* handles the caller still holds
    alive,      \* nodes whose strong count is positive (not yet deallocated)
    everSet,    \* history: Input nodes on which set has been called
    evals,      \* history: evals[n] counts the applications of n's operation
                \* since n's cache was last taken by clear_cash
    replaced,   \* history: the cache the target held before the last call,
                \* when that call was a set (None after any other call)
    last,       \* observation of the last public call
    stack       \* the call stack of the public call in progress, innermost
                \* frame last; empty between calls (used by SpecStep, where
                \* a call runs one step at a time)

vars == <<nodes, held, alive, everSet, evals, replaced, last, stack>>

Vals == 0 .. (NumVals - 1)

\* Option<f32>
None    == <<>>
Some(v) == <<v>>

\* f32 arithmetic, abstracted to the finite value domain
f32_add(x, y)  == (x + y) % NumVals
f32_mul(x, y)  == (x * y) % NumVals
f32_sin(x)     == (x + 1) % NumVals
\* powf(x, 0) is 1 for every x, 0 included
f32_powf(x, y) == IF y = 0 THEN 1 % NumVals ELSE (x ^ y) % NumVals

\* enum OperationType
Input          == [tag |-> "Input",  ops |-> <<>>]
Add(op1, op2)  == [tag |-> "Add",    ops |-> <<op1, op2>>]
Mul(op1, op2)  == [tag |-> "Mul",    ops |-> <<op1, op2>>]
Sin(op)        == [tag |-> "Sin",    ops |-> <<op>>]
PowF32(b, exp) == [tag |-> "PowF32", ops |-> <<b, exp>>]

\* Node::new that initialises the cache to 0.0 whatever it is given
Node_new_zero(op_type, cache) ==
    [op_type |-> op_type, dependent_nodes |-> <<>>, cache |-> Some(0)]

\* Node::new
Node_new(op_type, cache) ==
    [op_type |-> op_type, dependent_nodes |-> <<>>, cache |-> cache]

\* Node::wrap: allocate the node; the new handle is Len(ns) + 1
wrap(ns, node) == Append(ns, node)

\* add_dependent_node with a membership test before the push: a node that is
\* already a dependent of op is not registered again
add_dependent_node_once(ns, self, op) ==
    IF \E k \in DOMAIN ns[op].dependent_nodes : ns[op].dependent_nodes[k] = self
    THEN ns
    ELSE [ns EXCEPT ![op].dependent_nodes = Append(@, self)]

\* RefCell::borrow_mut on a node, bor being the nodes mutably borrowed at
\* that point: panics when the node is among them
borrow_mut(node, bor) == IF node \in bor THEN "BorrowMutError" ELSE ""

RECURSIVE add_dependent_node_borrows(_, _)
\* The borrows of the add_dependent_node calls of a constructor, one call
\* per operand in order.  Each call borrows its operand and releases it when
\* it returns, so every call starts from the same set bor.
add_dependent_node_borrows(ops, bor) ==
    IF ops = <<>> THEN ""
    ELSE IF borrow_mut(Head(ops), bor) # ""
    THEN borrow_mut(Head(ops), bor)
    ELSE add_dependent_node_borrows(Tail(ops), bor)

\* Graph::add_dependent_node(&self, op): push a clone of self on op's list
add_dependent_node(ns, self, op) ==
    [ns EXCEPT ![op].dependent_nodes = Append(@, self)]

\* Graph::create_input
create_input(ns) == wrap(ns, Node_new(Input, None))

\* Graph::add
add(ns, op1, op2) ==
    LET node == Len(ns) + 1
        n0   == wrap(ns, Node_new(Add(op1, op2), None))
        n1   == add_dependent_node(n0, node, op1)
    IN  add_dependent_node(n1, node, op2)

\* Graph::mul
mul(ns, op1, op2) ==
    LET node == Len(ns) + 1
        n0   == wrap(ns, Node_new(Mul(op1, op2), None))
        n1   == add_dependent_node(n0, node, op1)
    IN  add_dependent_node(n1, node, op2)

\* Graph::pow_f32
pow_f32(ns, b, exp) ==
    LET node == Len(ns) + 1
        n0   == wrap(ns, Node_new(PowF32(b, exp), None))
        n1   == add_dependent_node(n0, node, b)
    IN  add_dependent_node(n1, node, exp)

\* sin that stores the new handle, not op, as the operand of the new node
sin_self(ns, op) ==
    LET node == Len(ns) + 1
        n0   == wrap(ns, Node_new(Sin(node), None))
    IN  add_dependent_node(n0, node, op)

\* Graph::sin
sin(ns, op) ==
    LET node == Len(ns) + 1
        n0   == wrap(ns, Node_new(Sin(op), None))
    IN  add_dependent_node(n0, node, op)

\* The arithmetic of the four operator arms of traverse
apply(tag, xs) ==
    CASE tag = "Add"    -> f32_add(xs[1], xs[2])
      [] tag = "Mul"    -> f32_mul(xs[1], xs[2])
      [] tag = "Sin"    -> f32_sin(xs[1])
      [] tag = "PowF32" -> f32_powf(xs[1], xs[2])

\* Option::unwrap_or_default in place of unwrap: None reads as 0.0
unwrap_or_default(opt) ==
    IF opt = None THEN [ret |-> Some(0), panic |-> ""]
                  ELSE [ret |-> opt,     panic |-> ""]

\* Option::unwrap in the Input arm of traverse: panics on None
unwrap(opt) ==
    IF opt = None THEN [ret |-> None, panic |-> "unwrap"]
                  ELSE [ret |-> opt,  panic |-> ""]

\* traverse without its early return: the cache is never consulted
cache_lookup_never(node, ns) == None

\* The cache test that opens traverse: Some(v) makes traverse return v
cache_lookup(node, ns) == ns[node].cache

\* traverse without the node.cache.replace(res) of its operator arms
cache_store_skipped(ns, node, res) == ns

\* node.cache.replace(res) in the operator arms of traverse
cache_store(ns, node, res) == [ns EXCEPT ![node].cache = Some(res)]

RECURSIVE traverse(_, _, _)
RECURSIVE traverse_operands(_, _, _)

\* traverse_operands that keeps each operand mutably borrowed while the
\* operands after it are evaluated
traverse_operands_holding(ops, ns, bor) ==
    IF ops = <<>>
    THEN [ns |-> ns, vals |-> <<>>, visited |-> <<>>, applied |-> <<>>,
          panic |-> ""]
    ELSE LET r == traverse(Head(ops), ns, bor)
         IN  IF r.panic # ""
             THEN [ns |-> r.ns, vals |-> <<>>, visited |-> r.visited,
                   applied |-> r.applied, panic |-> r.panic]
             ELSE LET rest == traverse_operands(Tail(ops), r.ns,
                                                bor \cup {Head(ops)})
                  IN  [ns |-> rest.ns, vals |-> r.ret \o rest.vals,
                       visited |-> r.visited \o rest.visited,
                       applied |-> r.applied \o rest.applied,
                       panic |-> rest.panic]

\* The operand calls of one arm of traverse, left to right; a panic unwinds
\* and the operands after it are not evaluated.
traverse_operands(ops, ns, bor) ==
    IF ops = <<>>
    THEN [ns |-> ns, vals |-> <<>>, visited |-> <<>>, applied |-> <<>>,
          panic |-> ""]
    ELSE LET r == traverse(Head(ops), ns, bor)
         IN  IF r.panic # ""
             THEN [ns |-> r.ns, vals |-> <<>>, visited |-> r.visited,
                   applied |-> r.applied, panic |-> r.panic]
             ELSE LET rest == traverse_operands(Tail(ops), r.ns, bor)
                  IN  [ns |-> rest.ns, vals |-> r.ret \o rest.vals,
                       visited |-> r.visited \o rest.visited,
                       applied |-> r.applied \o rest.applied,
                       panic |-> rest.panic]

\* Graph::traverse.  bor is the set of nodes mutably borrowed further up the
\* call chain; visited logs every call of traverse in order and applied
\* every node whose operation was applied to its operands' values.
\* ret = None with panic # "" is a call that unwound instead of returning.
traverse(node, ns, bor) ==
    IF node \in bor
    THEN [ns |-> ns, ret |-> None, visited |-> <<node>>, applied |-> <<>>,
          panic |-> "BorrowMutError"]
    ELSE IF cache_lookup(node, ns) # None
    THEN [ns |-> ns, ret |-> cache_lookup(node, ns), visited |-> <<node>>,
          applied |-> <<>>, panic |-> ""]
    ELSE IF ns[node].op_type.tag = "Input"
    THEN LET u == unwrap(ns[node].cache)
         IN  [ns |-> ns, ret |-> u.ret, visited |-> <<node>>,
              applied |-> <<>>, panic |-> u.panic]
    ELSE LET r == traverse_operands(ns[node].op_type.ops, ns,
                                    bor \cup {node})
         IN  IF r.panic # ""
             THEN [ns |-> r.ns, ret |-> None,
                   visited |-> <<node>> \o r.visited,
                   applied |-> r.applied, panic |-> r.panic]
             ELSE LET res == apply(ns[node].op_type.tag, r.vals)
                  IN  [ns |-> cache_store(r.ns, node, res),
                       ret |-> Some(res),
                       visited |-> <<node>> \o r.visited,
                       applied |-> r.applied \o <<node>>, panic |-> ""]

\* Graph::compute
compute(self, ns) == traverse(self, ns, {})

RECURSIVE clear_cash(_, _, _)
RECURSIVE clear_deps(_, _, _)

\* clear_cash with a loop that clears the direct dependents' caches and does
\* not recurse into their dependents
clear_cash_shallow(node, ns, bor) ==
    [ns |-> [n \in DOMAIN ns |->
                IF n = node \/ \E k \in DOMAIN ns[node].dependent_nodes :
                                   ns[node].dependent_nodes[k] = n
                THEN [ns[n] EXCEPT !.cache = None]
                ELSE ns[n]],
     cleared |-> <<node>> \o ns[node].dependent_nodes,
     panic |-> ""]

\* the loop of clear_cash leaving after its first iteration
clear_deps_first_only(deps, ns, bor) ==
    IF deps = <<>>
    THEN [ns |-> ns, cleared |-> <<>>, panic |-> ""]
    ELSE clear_cash(Head(deps), ns, bor)

\* The for loop of clear_cash over the dependent nodes, in list order
clear_deps(deps, ns, bor) ==
    IF deps = <<>>
    THEN [ns |-> ns, cleared |-> <<>>, panic |-> ""]
    ELSE LET r == clear_cash(Head(deps), ns, bor)
         IN  IF r.panic # ""
             THEN r
             ELSE LET rest == clear_deps(Tail(deps), r.ns, bor)
                  IN  [ns |-> rest.ns, cleared |-> r.cleared \o rest.cleared,
                       panic |-> rest.panic]

\* Graph::clear_cash.  cleared logs every execution of cache.take() in order.
clear_cash(node, ns, bor) ==
    IF node \in bor
    THEN [ns |-> ns, cleared |-> <<>>, panic |-> "BorrowMutError"]
    ELSE LET taken == [ns EXCEPT ![node].cache = None]
             r     == clear_deps(ns[node].dependent_nodes, taken,
                                 bor \cup {node})
         IN  [ns |-> r.ns, cleared |-> <<node>> \o r.cleared,
              panic |-> r.panic]

\* set without the call of clear_cash: the new value is written and no
\* dependent is invalidated
set_without_clear(self, new_val, ns) ==
    IF ns[self].op_type.tag = "Input"
    THEN [ns |-> [ns EXCEPT ![self].cache = Some(new_val)],
          cleared |-> <<>>, panic |-> ""]
    ELSE [ns |-> ns, cleared |-> <<>>, panic |-> ""]

\* set that invalidates the whole graph instead of walking the dependents
set_clear_all(self, new_val, ns) ==
    IF ns[self].op_type.tag = "Input"
    THEN [ns |-> [n \in DOMAIN ns |->
                     [ns[n] EXCEPT !.cache =
                         IF n = self THEN Some(new_val)
                         ELSE IF ns[n].op_type.tag = "Input" THEN @
                         ELSE None]],
          cleared |-> <<self>>, panic |-> ""]
    ELSE [ns |-> ns, cleared |-> <<>>, panic |-> ""]

\* set without drop(node): self is still mutably borrowed when clear_cash
\* borrows it
set_without_drop(self, new_val, ns) ==
    IF ns[self].op_type.tag = "Input"
    THEN LET r == clear_cash(self, ns, {self})
         IN  IF r.panic # ""
             THEN r
             ELSE [ns |-> [r.ns EXCEPT ![self].cache = Some(new_val)],
                   cleared |-> r.cleared, panic |-> ""]
    ELSE [ns |-> ns, cleared |-> <<>>, panic |-> ""]

\* set that writes new_val first and calls clear_cash afterwards
set_write_then_clear(self, new_val, ns) ==
    IF ns[self].op_type.tag = "Input"
    THEN clear_cash(self, [ns EXCEPT ![self].cache = Some(new_val)], {})
    ELSE [ns |-> ns, cleared |-> <<>>, panic |-> ""]

\* set without the test of the operation type: any node is cleared and
\* written
set_any(self, new_val, ns) ==
    LET r == clear_cash(self, ns, {})
    IN  IF r.panic # ""
        THEN r
        ELSE [ns |-> [r.ns EXCEPT ![self].cache = Some(new_val)],
              cleared |-> r.cleared, panic |-> ""]

\* set that returns at once when the input already holds new_val
set_short_circuit(self, new_val, ns) ==
    IF ns[self].op_type.tag = "Input" /\ ns[self].cache # Some(new_val)
    THEN LET r == clear_cash(self, ns, {})
         IN  IF r.panic # ""
             THEN r
             ELSE [ns |-> [r.ns EXCEPT ![self].cache = Some(new_val)],
                   cleared |-> r.cleared, panic |-> ""]
    ELSE [ns |-> ns, cleared |-> <<>>, panic |-> ""]

\* Graph::set: returns (); on a node that is not an Input it does nothing
set(self, new_val, ns) ==
    IF ns[self].op_type.tag = "Input"
    THEN LET r == clear_cash(self, ns, {})
         IN  IF r.panic # ""
             THEN r
             ELSE [ns |-> [r.ns EXCEPT ![self].cache = Some(new_val)],
                   cleared |-> r.cleared, panic |-> ""]
    ELSE [ns |-> ns, cleared |-> <<>>, panic |-> ""]

----------------------------------------------------------------------------
\* Ownership: Rc strong counts

\* the positions of sequence s that hold x
Occurrences(s, x) == {k \in DOMAIN s : s[k] = x}

\* Rc::strong_count of node n: the caller's handle, plus every Graph value
\* stored in the op_type or the dependent_nodes of a node still allocated
strong_count(n, ns, hs, al) ==
    (IF n \in hs THEN 1 ELSE 0)
    + Cardinality(UNION {{<<i, k>> : k \in Occurrences(ns[i].op_type.ops, n)}
                          : i \in al})
    + Cardinality(UNION {{<<i, k>> : k \in Occurrences(ns[i].dependent_nodes, n)}
                          : i \in al})

RECURSIVE dealloc(_, _, _)
\* Drop for Rc<RefCell<Node>>: a node whose strong count is zero is dropped,
\* which drops the Graph values it stores, and so on
dealloc(ns, hs, al) ==
    LET dead == {n \in al : strong_count(n, ns, hs, al) = 0}
    IN  IF dead = {} THEN al ELSE dealloc(ns, hs, al \ dead)

----------------------------------------------------------------------------
\* The public calls, as actions.  A call needs a handle the caller holds;
\* the constructors take their operands by value, the caller passing clones.

Handles == 1 .. Len(nodes)

Obs(op, node, ret, panic, visited, cleared) ==
    [op |-> op, node |-> node, ret |-> ret, panic |-> panic,
     visited |-> visited, cleared |-> cleared]

RECURSIVE Counted(_, _)
\* the counters ev, each node of the log counted once per entry
Counted(ev, log) ==
    IF log = <<>> THEN ev
    ELSE Counted([ev EXCEPT ![Head(log)] = @ + 1], Tail(log))

RECURSIVE Reset(_, _)
\* the counters ev, back to 0 for each node of the log
Reset(ev, log) ==
    IF log = <<>> THEN ev
    ELSE Reset([ev EXCEPT ![Head(log)] = 0], Tail(log))

Constructed(op, ns) ==
    /\ nodes' = ns
    /\ held' = held \cup {Len(ns)}
    /\ alive' = alive \cup {Len(ns)}
    /\ everSet' = everSet
    /\ evals' = Append(evals, 0)
    /\ replaced' = None
    /\ stack' = stack
    /\ last' = Obs(op, Len(ns), None,
                   add_dependent_node_borrows(ns[Len(ns)].op_type.ops, {}),
                   <<>>, <<>>)

Call_create_input(max) ==
    /\ Len(nodes) < max
    /\ Constructed("create_input", create_input(nodes))

Call_add(max) ==
    /\ Len(nodes) < max
    /\ \E op1 \in held, op2 \in held :
          Constructed("add", add(nodes, op1, op2))

Call_mul(max) ==
    /\ Len(nodes) < max
    /\ \E op1 \in held, op2 \in held :
          Constructed("mul", mul(nodes, op1, op2))

Call_pow_f32(max) ==
    /\ Len(nodes) < max
    /\ \E b \in held, exp \in held :
          Constructed("pow_f32", pow_f32(nodes, b, exp))

Call_sin(max) ==
    /\ Len(nodes) < max
    /\ \E op \in held : Constructed("sin", sin(nodes, op))

Call_compute ==
    \E self \in held :
        \E r \in {compute(self, nodes)} :
            /\ nodes' = r.ns
            /\ evals' = Counted(evals, r.applied)
            /\ last' = Obs("compute", self, r.ret, r.panic,
                           r.visited, <<>>)
            /\ replaced' = None
            /\ UNCHANGED <<held, alive, everSet, stack>>

Call_set ==
    \E self \in held, new_val \in Vals :
        \E r \in {set(self, new_val, nodes)} :
            /\ nodes' = r.ns
            /\ everSet' = IF nodes[self].op_type.tag = "Input"
                          THEN everSet \cup {self} ELSE everSet
            /\ evals' = Reset(evals, r.cleared)
            /\ replaced' = nodes[self].cache
            /\ last' = Obs("set", self, None, r.panic,
                           <<>>, r.cleared)
            /\ UNCHANGED <<held, alive, stack>>

\* The caller drops its handle on a node
Call_drop ==
    \E self \in held :
        /\ held' = held \ {self}
        /\ alive' = dealloc(nodes, held \ {self}, alive)
        /\ replaced' = None
        /\ last' = Obs("drop", self, None, "", <<>>, <<>>)
        /\ UNCHANGED <<nodes, everSet, evals, stack>>

Init ==
    /\ nodes = <<>>
    /\ held = {}
    /\ alive = {}
    /\ everSet = {}
    /\ evals = <<>>
    /\ replaced = None
    /\ stack = <<>>
    /\ last = Obs("init", 0, None, "", <<>>, <<>>)

Constructor(max) ==
    \/ Call_create_input(max)
    \/ Call_add(max)
    \/ Call_mul(max)
    \/ Call_pow_f32(max)
    \/ Call_sin(max)

Next ==
    \/ Constructor(MaxNodes)
    \/ Call_compute
    \/ Call_set

\* Construction, set and compute, every handle kept
Spec == Init /\ [][Next]_vars

NextLarge ==
    \/ Constructor(MaxNodesLarge)
    \/ Call_compute
    \/ Call_set

\* The same on graphs of up to MaxNodesLarge nodes
SpecLarge == Init /\ [][NextLarge]_vars

NextRc ==
    \/ Next
    \/ Call_drop

\* Spec, and the caller may drop handles
SpecRc == Init /\ [][NextRc]_vars

----------------------------------------------------------------------------
\* The same calls, one step of the recursion at a time.  A frame is one
\* activation of traverse, clear_cash or set: the node it was called on, pc
\* (0 on entry, before borrow_mut; k >= 1 when the k-th operand or dependent
\* is the next to recurse into) and vals (the operand values returned so far;
\* for set, the new value).  In these steps last keeps the call, its result
\* and its panic, not the logs.

Frame(fn, node, vals) == [fn |-> fn, node |-> node, pc |-> 0, vals |-> vals]

Top == stack[Len(stack)]

Callers == SubSeq(stack, 1, Len(stack) - 1)

\* the nodes mutably borrowed by the frames of st: traverse and clear_cash
\* hold their node from borrow_mut to their return, set holds none while it
\* calls clear_cash
BorrowedBy(st) ==
    {st[k].node : k \in {j \in DOMAIN st : st[j].fn # "set" /\ st[j].pc > 0}}

\* the loop of clear_cash that never moves to the next dependent
next_dependent_stuck(frame) == frame

\* for dep in &node.dependent_nodes: on to the next dependent
next_dependent(frame) == [frame EXCEPT !.pc = @ + 1]

\* the next operand of the arm, evaluated after the current one returns
next_operand(frame) == [frame EXCEPT !.pc = @ + 1]

\* a panic unwinds every frame of the call
Unwind(panic) ==
    /\ stack' = <<>>
    /\ last' = [last EXCEPT !.panic = panic]

\* traverse returns v: to the calling arm, or to the caller of compute
Return(v) ==
    IF Callers = <<>>
    THEN /\ stack' = <<>>
         /\ last' = [last EXCEPT !.ret = Some(v)]
    ELSE /\ stack' = [Callers EXCEPT ![Len(Callers)].vals = Append(@, v)]
         /\ last' = last

\* compute(&self): traverse is called on self
Begin_compute ==
    /\ stack = <<>>
    /\ \E self \in held :
          /\ stack' = <<Frame("traverse", self, <<>>)>>
          /\ last' = Obs("compute", self, None, "", <<>>, <<>>)
    /\ replaced' = None
    /\ UNCHANGED <<nodes, held, alive, everSet, evals>>

\* traverse, from its entry to the match: borrow_mut, the cache test, the
\* Input arm
Step_traverse_enter ==
    /\ stack # <<>>
    /\ Top.fn = "traverse"
    /\ Top.pc = 0
    /\ IF borrow_mut(Top.node, BorrowedBy(Callers)) # ""
       THEN Unwind(borrow_mut(Top.node, BorrowedBy(Callers)))
       ELSE IF cache_lookup(Top.node, nodes) # None
       THEN Return(cache_lookup(Top.node, nodes)[1])
       ELSE IF nodes[Top.node].op_type.tag = "Input"
       THEN Unwind(unwrap(nodes[Top.node].cache).panic)
       ELSE /\ stack' = Append(Callers, next_operand(Top))
            /\ last' = last
    /\ UNCHANGED <<nodes, held, alive, everSet, evals, replaced>>

\* an operator arm calls traverse on its next operand
Step_traverse_call ==
    /\ stack # <<>>
    /\ Top.fn = "traverse"
    /\ Top.pc \in DOMAIN nodes[Top.node].op_type.ops
    /\ stack' = Callers \o <<next_operand(Top),
                             Frame("traverse",
                                   nodes[Top.node].op_type.ops[Top.pc], <<>>)>>
    /\ UNCHANGED <<nodes, held, alive, everSet, evals, replaced, last>>

\* an operator arm, its operands evaluated: the operation is applied, the
\* result stored in the cache and returned
Step_traverse_apply ==
    /\ stack # <<>>
    /\ Top.fn = "traverse"
    /\ Top.pc > Len(nodes[Top.node].op_type.ops)
    /\ \E res \in {apply(nodes[Top.node].op_type.tag, Top.vals)} :
          /\ nodes' = cache_store(nodes, Top.node, res)
          /\ evals' = Counted(evals, <<Top.node>>)
          /\ Return(res)
    /\ UNCHANGED <<held, alive, everSet, replaced>>

\* set(&self, new_val): the test of the operation type; on an Input the
\* borrow is dropped and clear_cash is called on self
Begin_set ==
    /\ stack = <<>>
    /\ \E self \in held, new_val \in Vals :
          /\ stack' = IF nodes[self].op_type.tag = "Input"
                      THEN <<[Frame("set", self, <<new_val>>) EXCEPT !.pc = 1],
                             Frame("clear_cash", self, <<>>)>>
                      ELSE <<>>
          /\ everSet' = IF nodes[self].op_type.tag = "Input"
                        THEN everSet \cup {self} ELSE everSet
          /\ replaced' = nodes[self].cache
          /\ last' = Obs("set", self, None, "", <<>>, <<>>)
    /\ UNCHANGED <<nodes, held, alive, evals>>

\* clear_cash, from its entry to the loop: borrow_mut and cache.take()
Step_clear_enter ==
    /\ stack # <<>>
    /\ Top.fn = "clear_cash"
    /\ Top.pc = 0
    /\ IF borrow_mut(Top.node, BorrowedBy(Callers)) # ""
       THEN /\ Unwind(borrow_mut(Top.node, BorrowedBy(Callers)))
            /\ UNCHANGED <<nodes, evals>>
       ELSE /\ nodes' = [nodes EXCEPT ![Top.node].cache = None]
            /\ evals' = Reset(evals, <<Top.node>>)
            /\ stack' = Append(Callers, [Top EXCEPT !.pc = 1])
            /\ last' = last
    /\ UNCHANGED <<held, alive, everSet, replaced>>

\* the loop of clear_cash calls clear_cash on the next dependent
Step_clear_call ==
    /\ stack # <<>>
    /\ Top.fn = "clear_cash"
    /\ Top.pc \in DOMAIN nodes[Top.node].dependent_nodes
    /\ stack' = Callers \o <<next_dependent(Top),
                             Frame("clear_cash",
                                   nodes[Top.node].dependent_nodes[Top.pc],
                                   <<>>)>>
    /\ UNCHANGED <<nodes, held, alive, everSet, evals, replaced, last>>

\* the loop of clear_cash is over: clear_cash returns
Step_clear_return ==
    /\ stack # <<>>
    /\ Top.fn = "clear_cash"
    /\ Top.pc > Len(nodes[Top.node].dependent_nodes)
    /\ stack' = Callers
    /\ UNCHANGED <<nodes, held, alive, everSet, evals, replaced, last>>

\* set, after clear_cash has returned: the new value is written
Step_set_write ==
    /\ stack # <<>>
    /\ Top.fn = "set"
    /\ nodes' = [nodes EXCEPT ![Top.node].cache = Some(Top.vals[1])]
    /\ stack' = <<>>
    /\ UNCHANGED <<held, alive, everSet, evals, replaced, last>>

\* a step of the call in progress
Step ==
    \/ Step_traverse_enter
    \/ Step_traverse_call
    \/ Step_traverse_apply
    \/ Step_clear_enter
    \/ Step_clear_call
    \/ Step_clear_return
    \/ Step_set_write

NextStep ==
    \/ (stack = <<>> /\ Constructor(MaxNodes))
    \/ Begin_compute
    \/ Begin_set
    \/ Step

\* Single-threaded and synchronous: a call, once begun, keeps running until
\* it returns or panics
SpecStep == Init /\ [][NextStep]_vars /\ WF_vars(Step)

----------------------------------------------------------------------------
\* Vocabulary of the properties

IsInput(n) == nodes[n].op_type.tag = "Input"

Range(s) == {s[k] : k \in DOMAIN s}

IsPrefix(s, t) == Len(s) <= Len(t) /\ SubSeq(t, 1, Len(s)) = s

RECURSIVE OperandClosure(_)
\* n and every node reachable from n through operand edges
OperandClosure(n) ==
    {n} \cup UNION {OperandClosure(c) : c \in Range(nodes[n].op_type.ops)}

InputsBelow(h) == {n \in OperandClosure(h) : IsInput(n)}

RECURSIVE DependentClosure(_)
\* the nodes reachable from n through one or more dependent edges
DependentClosure(n) ==
    UNION {{d} \cup DependentClosure(d) : d \in Range(nodes[n].dependent_nodes)}

RECURSIVE Eval(_)
\* The value of n's expression on the inputs' current values, computed from
\* scratch: no cache of an operator node is read
Eval(n) ==
    IF IsInput(n) THEN nodes[n].cache[1]
    ELSE apply(nodes[n].op_type.tag,
               [k \in DOMAIN nodes[n].op_type.ops |->
                    Eval(nodes[n].op_type.ops[k])])

----------------------------------------------------------------------------
\* C1 - No stale result: whenever compute(h) has just been called and every
\* Input reachable from h through operand edges has been set at least once,
\* the call returned exactly the value of h's expression evaluated from
\* scratch on the most recently set value of each input.
C1_NoStaleResult ==
    (last.op = "compute" /\ InputsBelow(last.node) \subseteq everSet)
        => last.ret = Some(Eval(last.node))

\* a compute of an operator node that returned after visiting operands, one
\* of them an operator node as well
C1_Witness ==
    /\ last.op = "compute"
    /\ ~IsInput(last.node)
    /\ InputsBelow(last.node) \subseteq everSet
    /\ last.ret # None
    /\ \E k \in 2 .. Len(last.visited) : ~IsInput(last.visited[k])

\* C2 - Invalidation completeness: right after I.set(v) on an Input I, every
\* node other than I reachable from I through dependent edges has an empty
\* cache; and an operator node's cache goes from empty to present only in a
\* compute call that visits the node.
C2_AfterSetEmpty ==
    (last.op = "set" /\ IsInput(last.node))
        => \A n \in DependentClosure(last.node) \ {last.node} :
               nodes[n].cache = None

C2_FilledOnlyByVisit ==
    \A n \in Handles :
        (~IsInput(n) /\ nodes[n].cache = None /\ nodes'[n].cache # None)
            => (last'.op = "compute" /\ n \in Range(last'.visited))

C2_InvalidationComplete ==
    [] C2_AfterSetEmpty /\ [][C2_FilledOnlyByVisit]_vars

\* a set on an input with a dependent that has a dependent of its own
C2_Witness ==
    /\ last.op = "set"
    /\ IsInput(last.node)
    /\ \E n \in DependentClosure(last.node) :
           nodes[n].dependent_nodes # <<>>

\* C3 - Invalidation precision: I.set(v) on an Input I leaves unchanged the
\* cache of every node that is not I and is not reachable from I through
\* dependent edges.
C3_Frame ==
    (last'.op = "set" /\ IsInput(last'.node))
        => \A n \in Handles \ ({last'.node} \cup DependentClosure(last'.node)) :
               nodes'[n].cache = nodes[n].cache

C3_InvalidationPrecise == [][C3_Frame]_vars

\* after a set on an input, an operator node that does not depend on it still
\* holds a cached value and another input still holds its value
C3_Witness ==
    /\ last.op = "set"
    /\ IsInput(last.node)
    /\ last.cleared # <<>>
    /\ \E n \in Handles \ ({last.node} \cup DependentClosure(last.node)) :
           ~IsInput(n) /\ nodes[n].cache # None

\* C4 - Memoization: a compute call that returned leaves the returned value
\* in the node's cache; a present cache is emptied or changed only by a set;
\* and a compute call on a node whose cache is present returns that cached
\* value, calls traverse on no other node and changes no node.  Hence two
\* compute calls on a node with no set in between return the same result and
\* the second one does not recurse into operands.
C4_ReturnedIsCached ==
    (last.op = "compute" /\ last.ret # None)
        => nodes[last.node].cache = last.ret

C4_PresentUntilSet ==
    \A n \in Handles :
        (nodes[n].cache # None /\ nodes'[n].cache # nodes[n].cache)
            => last'.op = "set"

C4_HitIsLocal ==
    (last'.op = "compute" /\ nodes[last'.node].cache # None)
        => /\ last'.ret = nodes[last'.node].cache
           /\ last'.visited = <<last'.node>>
           /\ nodes' = nodes

C4_Memoization ==
    [] C4_ReturnedIsCached /\ [][C4_PresentUntilSet /\ C4_HitIsLocal]_vars

\* a compute on an operator node answered from its own cache
C4_Witness ==
    /\ last.op = "compute"
    /\ ~IsInput(last.node)
    /\ last.ret # None
    /\ last.visited = <<last.node>>

\* C5 - set on a non-input node is rejected: a set call on an Add, Mul, Pow
\* or Sin node is reported to the caller as an error.  set returns () and the
\* only report it could make is a panic.
C5_SetOnOperatorRejected ==
    (last.op = "set" /\ ~IsInput(last.node)) => last.panic # ""

\* C6 - State unchanged on a failed compute: a compute call that aborts on an
\* unset Input leaves every node's cache as it was before the call.
C6_Frame ==
    (last'.op = "compute" /\ last'.panic # "") => nodes' = nodes

C6_FailedComputeNoWrite == [][C6_Frame]_vars

\* C7 - No default for an unset input: a compute call that reaches an Input
\* node whose cache is empty returns no value; it panics.  (compute writes no
\* Input's cache, so the input's cache after the call is its cache when the
\* call reached it.)
C7_UnsetInputAborts ==
    (last.op = "compute"
       /\ \E n \in Range(last.visited) : IsInput(n) /\ nodes[n].cache = None)
        => (last.ret = None /\ last.panic = "unwrap")

\* a compute that went through an operator node and hit an unset input
C7_Witness ==
    /\ last.op = "compute"
    /\ last.panic = "unwrap"
    /\ Len(last.visited) > 1

\* C8 - Invalidation visits each node at most once per set call: in one set
\* call no node has its cache-clearing step executed more than once.
C8_ClearedAtMostOnce ==
    last.op = "set"
        => \A n \in Handles : Cardinality(Occurrences(last.cleared, n)) <= 1

\* C9 - Node reclamation: once the caller has dropped every handle it held,
\* every node has been deallocated.
C9_AllReclaimed == (held = {}) => (alive = {})

\* C10 - Reverse-edge invariant: for every operator node P and node C, C's
\* dependent list holds P exactly once per occurrence of C among P's
\* operands; and no step removes or reorders entries of a dependent list: the
\* old list is a prefix of the new one.
C10_ReverseEdges ==
    \A p \in Handles : \A c \in Handles :
        Cardinality(Occurrences(nodes[c].dependent_nodes, p))
            = Cardinality(Occurrences(nodes[p].op_type.ops, c))

C10_AppendOnly ==
    \A n \in Handles :
        IsPrefix(nodes[n].dependent_nodes, nodes'[n].dependent_nodes)

C10_ReverseEdgeInvariant ==
    [] C10_ReverseEdges /\ [][C10_AppendOnly]_vars

\* a node built from the same handle twice, that handle used again by a
\* later node
C10_Witness ==
    \E p \in Handles : \E c \in Handles :
        /\ nodes[p].op_type.ops = <<c, c>>
        /\ Len(nodes[c].dependent_nodes) > 2

RECURSIVE OperandsWithin(_, _)
\* the nodes reachable from n through 1 .. k operand edges
OperandsWithin(n, k) ==
    IF k = 0 THEN {}
    ELSE LET direct == Range(nodes[n].op_type.ops)
         IN  direct \cup UNION {OperandsWithin(c, k - 1) : c \in direct}

\* C11 - Acyclicity: in every reachable state no node is, directly or
\* transitively, its own operand; every operand of a node is a handle that
\* existed before the node was created; and no step rewrites the operation of
\* an existing node.
C11_Acyclic ==
    \A n \in Handles : n \notin OperandsWithin(n, Len(nodes))

C11_OperandsOlder ==
    \A n \in Handles : \A c \in Range(nodes[n].op_type.ops) : c < n

C11_OperationFixed ==
    \A n \in Handles : nodes'[n].op_type = nodes[n].op_type

C11_Acyclicity ==
    [] (C11_Acyclic /\ C11_OperandsOlder) /\ [][C11_OperationFixed]_vars

\* an operator node built on an operator node, computed
C11_Witness ==
    \E n \in Handles : \E c \in Range(nodes[n].op_type.ops) :
        ~IsInput(c) /\ nodes[n].cache # None

\* C12 - Sharing correctness: a compute on a binary node built from the same
\* handle x twice, every input below it set, does not panic and returns the
\* node's operation applied to (x.compute(), x.compute()); for mul(x, x)
\* that is x.compute() * x.compute().  It holds in every reachable state, so
\* also after x has been set again.
C12_SharingCorrect ==
    LET m == last.node
    IN  (/\ last.op = "compute"
         /\ Len(nodes[m].op_type.ops) = 2
         /\ nodes[m].op_type.ops[1] = nodes[m].op_type.ops[2]
         /\ InputsBelow(m) \subseteq everSet)
        => LET x == compute(nodes[m].op_type.ops[1], nodes)
           IN  /\ last.panic = ""
               /\ x.ret # None
               /\ last.ret = Some(apply(nodes[m].op_type.tag,
                                        <<x.ret[1], x.ret[1]>>))
               /\ (nodes[m].op_type.tag = "Mul"
                     => last.ret = Some(f32_mul(x.ret[1], x.ret[1])))

\* a compute of mul(x, x) that evaluated x and then met x again
C12_Witness ==
    /\ last.op = "compute"
    /\ nodes[last.node].op_type.tag = "Mul"
    /\ nodes[last.node].op_type.ops[1] = nodes[last.node].op_type.ops[2]
    /\ last.ret # None
    /\ Len(last.visited) > 2

\* C13 - Only inputs are written by set: a set call on a node that is not an
\* Input changes no node; an operator node's cache is written only in a
\* compute call and emptied only in a set call on an Input it depends on.
C13_SetOnOperatorNoWrite ==
    (last'.op = "set" /\ ~IsInput(last'.node)) => nodes' = nodes

C13_OperatorCacheWriters ==
    \A n \in Handles :
        (~IsInput(n) /\ nodes'[n].cache # nodes[n].cache)
            => IF nodes'[n].cache # None
               THEN last'.op = "compute"
               ELSE /\ last'.op = "set"
                    /\ IsInput(last'.node)
                    /\ n \in DependentClosure(last'.node)

C13_OnlyInputsWritten ==
    [][C13_SetOnOperatorNoWrite /\ C13_OperatorCacheWriters]_vars

\* a set call on an operator node that holds a cached value
C13_Witness ==
    /\ last.op = "set"
    /\ ~IsInput(last.node)
    /\ nodes[last.node].cache # None

\* C14 - Setting an input to its current value is not short-circuited: a set
\* call that writes the value the Input already holds runs the clearing step
\* on every transitive dependent and leaves its cache empty, and a compute on
\* a dependent that held a value before the set returns that same value.
C14_Frame ==
    LET i == last'.node
    IN  (/\ last'.op = "set"
         /\ IsInput(i)
         /\ nodes[i].cache # None
         /\ nodes'[i].cache = nodes[i].cache)
        => \A n \in DependentClosure(i) :
               /\ nodes'[n].cache = None
               /\ n \in Range(last'.cleared)
               /\ (nodes[n].cache # None
                     => compute(n, nodes').ret = nodes[n].cache)

C14_SameValueSetClears == [][C14_Frame]_vars

\* after a set that wrote the value the input already held, the clearing
\* step has run on a dependent of a dependent of the input
C14_Witness ==
    /\ last.op = "set"
    /\ IsInput(last.node)
    /\ replaced = nodes[last.node].cache
    /\ Len(last.cleared) > 2
    /\ \E n \in DependentClosure(last.node) : evals[n] = 0

\* C15 - Shared nodes are evaluated once per invalidation epoch: between two
\* consecutive executions of a node's clearing step (or from its construction
\* to the first one) the node's operation is applied at most once, whatever
\* the compute calls and the operand paths that reach it.
C15_OncePerEpoch == \A n \in Handles : evals[n] <= 1

\* a compute that reached an operator node twice and applied its operation
\* once
C15_Witness ==
    /\ last.op = "compute"
    /\ \E n \in Handles :
           /\ ~IsInput(n)
           /\ Cardinality(Occurrences(last.visited, n)) >= 2
           /\ evals[n] = 1

Constructors == {"create_input", "add", "mul", "pow_f32", "sin"}

\* C17 - Construction frame: a constructor call adds exactly one node, with
\* an empty cache and an empty dependent list, whatever its operands' caches
\* hold; of the existing nodes it changes neither cache nor operation, and
\* it appends the new handle to the dependent list of each operand, once per
\* occurrence, and to no other list.
C17_Frame ==
    last'.op \in Constructors
        => LET new == Len(nodes) + 1
           IN  /\ Len(nodes') = new
               /\ last'.node = new
               /\ nodes'[new].cache = None
               /\ nodes'[new].dependent_nodes = <<>>
               /\ \A n \in Handles :
                      /\ nodes'[n].cache = nodes[n].cache
                      /\ nodes'[n].op_type = nodes[n].op_type
                      /\ nodes'[n].dependent_nodes
                           = nodes[n].dependent_nodes
                             \o [k \in 1 .. Cardinality(Occurrences(
                                     nodes'[new].op_type.ops, n)) |-> new]

C17_ConstructionFrame == [][C17_Frame]_vars

\* an operator node just built on an operand that holds a cached value
C17_Witness ==
    /\ last.op \in Constructors
    /\ nodes[last.node].cache = None
    /\ \E c \in Range(nodes[last.node].op_type.ops) : nodes[c].cache # None

C19_NoDoubleBorrow == last.panic # "BorrowMutError"

\* a set that ran the clearing step twice on a node, and a node built from
\* the same handle twice
C19_Witness ==
    /\ last.op = "set"
    /\ last.panic = ""
    /\ \E n \in Handles :
           /\ Cardinality(Occurrences(last.cleared, n)) >= 2
           /\ nodes[n].op_type.ops = <<last.node, last.node>>

\* C20 - Inputs stay set: an Input on which set has been called holds a
\* value between public calls ever after; and a compute on a handle whose
\* reachable Inputs have all been set returns a value and does not panic.
C20_InputsStaySet ==
    /\ \A n \in everSet : nodes[n].cache # None
    /\ (last.op = "compute" /\ InputsBelow(last.node) \subseteq everSet)
           => (last.ret # None /\ last.panic = "")

\* a set on an input that already held a value, with another set input that
\* shares a dependent with it
C20_Witness ==
    /\ last.op = "set"
    /\ IsInput(last.node)
    /\ replaced # None
    /\ \E n \in everSet :
           /\ n # last.node
           /\ DependentClosure(n) \cap DependentClosure(last.node) # {}

\* the largest element of a finite non-empty set of integers
Max(S) == CHOOSE x \in S : \A y \in S : y <= x

RECURSIVE OperandChain(_)
\* the number of nodes on the longest operand chain from n down to a leaf
OperandChain(n) ==
    1 + Max({0} \cup {OperandChain(c) : c \in Range(nodes[n].op_type.ops)})

RECURSIVE DependentChain(_)
\* the number of nodes on the longest chain of dependent edges from n
DependentChain(n) ==
    1 + Max({0} \cup {DependentChain(d) :
                         d \in Range(nodes[n].dependent_nodes)})

FramesOf(fn) == Cardinality({k \in DOMAIN stack : stack[k].fn = fn})

\* C16 - Termination: a compute call never has more activations of traverse
\* on the stack than there are nodes on the longest operand chain below the
\* queried node, a set call never more activations of clear_cash than nodes
\* on the longest chain of dependents of the input, and every call in
\* progress comes to an end, by returning or by a panic.
C16_DepthBounded ==
    stack # <<>>
        => /\ FramesOf("traverse") <= OperandChain(last.node)
           /\ FramesOf("clear_cash") <= DependentChain(last.node)

\* the step that ends a compute call returns a value or is the panic of
\* unwrap on an unset input
C16_ReturnsOrAborts ==
    (stack # <<>> /\ stack' = <<>> /\ last.op = "compute")
        => \/ last'.ret # None /\ last'.panic = ""
           \/ /\ last'.ret = None /\ last'.panic = "unwrap"
              /\ \E i \in InputsBelow(last.node) : nodes[i].cache = None

C16_Termination ==
    /\ [] C16_DepthBounded
    /\ [][C16_ReturnsOrAborts]_vars
    /\ (stack # <<>>) ~> (stack = <<>>)

\* a compute call with as many activations of traverse as the graph has nodes
C16_Witness ==
    /\ Len(stack) = MaxNodes
    /\ Top.pc = 0
    /\ last.op = "compute"

====
